---- MODULE Spec2Model ----
(***************************************************************************)
(* Lotus Hotel swipe gallery: the saved-items manager kept in localStorage *)
(* (SwipeGallery.tsx), the gallery cursor with its deferred advance        *)
(* (SwipeGallery.tsx) and the drag-release classification of a card        *)
(* (SwipeCard.tsx).                                                        *)
(***************************************************************************)
EXTENDS Integers, Sequences, FiniteSets, TLC

VARIABLES
  lotus_saved_items, \* the text kept under localStorage key 'lotus_saved_items'
  call,              \* the last savedItemsManager call and what it returned
  items,             \* the gallery's items prop
  currentIndex,      \* useState(0)
  viewMode,          \* useState('swipe')
  mounted,           \* whether the SwipeGallery component is mounted
  timers,            \* setTimeout callbacks not yet run, oldest first
  decisions,         \* calls of handleSwipeLeft / handleSwipeRight so far
  advances,          \* deferred callbacks that ran while mounted
  seenAll,           \* "You've seen all items!" toasts so far
  lateCallbacks,     \* deferred callbacks that ran after unmount
  lastDecision,      \* what the last commit handler recorded
  toast,             \* the last toast shown
  x,                 \* the x motion value of each card's SwipeCard instance
  y,                 \* the y motion value of each card's SwipeCard instance
  info,              \* the PanInfo of the last drag release and its outcome
  keydown,           \* the keydown events the window listener has handled
  booked             \* the cards the onBook prop was called with, in order

vars == <<lotus_saved_items, call, items, currentIndex, viewMode,
          mounted, timers, decisions, advances, seenAll, lateCallbacks,
          lastDecision, toast, x, y, info, keydown, booked>>

storeVars == <<lotus_saved_items, call>>
galleryVars == <<items, currentIndex, viewMode, mounted, timers, decisions,
                 advances, seenAll, lateCallbacks, lastDecision, toast>>
cardVars == <<x, y, info>>
keyVars == <<keydown, booked>>

(***************************************************************************)
(* Bounds of the model.                                                    *)
(***************************************************************************)
MaxTotal == 3
MaxDecisions == 3
TickStep == 300
MaxKeys == 3
MaxBookings == 2
StackTotal == 5

(***************************************************************************)
(* Program constants.                                                      *)
(***************************************************************************)
SWIPE_THRESHOLD == 100
SWIPE_VELOCITY == 500
SETTLE_DELAY == 300

(***************************************************************************)
(* Cards (SwipeCardData): the identifier and the category are the fields   *)
(* the logic reads.  AllItems is the list galleries are cut from.          *)
(***************************************************************************)
AllItems ==
  << [id |-> "a", type |-> "room"],
     [id |-> "b", type |-> "restaurant"],
     [id |-> "c", type |-> "room"],
     [id |-> "d", type |-> "experience"],
     [id |-> "e", type |-> "restaurant"],
     [id |-> "f", type |-> "experience"] >>

Cards == {AllItems[i] : i \in 1..MaxTotal}
CardIds == {c.id : c \in Cards}
CardTypes == {c.type : c \in Cards}

\* JavaScript's undefined (items[i] past the end) and JSON's null.
Undefined == [id |-> "undefined", type |-> "undefined"]
Null == [id |-> "null", type |-> "null"]

(***************************************************************************)
(* localStorage and JSON.  The stored text is kept by what it parses to:   *)
(* no key, text that is not JSON, JSON that is not an array, or an array.  *)
(***************************************************************************)
NoKey == [kind |-> "missing", entries |-> <<>>]
Unparseable == [kind |-> "unparseable", entries |-> <<>>]
NonArray == [kind |-> "nonarray", entries |-> <<>>]

\* JSON.stringify of an array: an undefined element is written as null.
JSON_stringify(list) ==
  [kind |-> "array",
   entries |-> [i \in 1..Len(list) |->
                  IF list[i] = Undefined THEN Null ELSE list[i]]]

\* JSON.parse: throws on text that is not JSON, else the value.
JSON_parse(text) ==
  [threw |-> text.kind = "unparseable",
   isArray |-> text.kind = "array",
   entries |-> IF text.kind = "array" THEN text.entries ELSE <<>>]

\* localStorage.getItem throws when storage access is denied.
getItemThrows(mode) == mode = "denied"

\* localStorage.setItem throws when access is denied or the quota is spent.
setItemThrows(mode) == mode \in {"denied", "quota"}

\* How localStorage may answer a call: it works, it can be read but not
\* written (quota spent), or every access throws.
StorageModes == {"ok", "quota", "denied"}

EmptyList == [isArray |-> TRUE, entries |-> <<>>]

getSavedItems(text, mode) ==
  IF getItemThrows(mode) THEN EmptyList
  ELSE IF text.kind = "missing" THEN EmptyList
  ELSE LET p == JSON_parse(text)
       IN IF p.threw THEN EmptyList
          ELSE [isArray |-> p.isArray, entries |-> p.entries]

\* saved.find((s) => s.id === item.id), from position i on.
RECURSIVE find(_, _, _)
find(list, item, i) ==
  IF i > Len(list) THEN [threw |-> FALSE, found |-> FALSE]
  ELSE IF list[i] = Null \/ item = Undefined
       THEN [threw |-> TRUE, found |-> FALSE]
  ELSE IF list[i].id = item.id THEN [threw |-> FALSE, found |-> TRUE]
  ELSE find(list, item, i + 1)

\* saved.some((s) => s.id === itemId), from position i on.
RECURSIVE some(_, _, _)
some(list, itemId, i) ==
  IF i > Len(list) THEN [threw |-> FALSE, found |-> FALSE]
  ELSE IF list[i] = Null THEN [threw |-> TRUE, found |-> FALSE]
  ELSE IF list[i].id = itemId THEN [threw |-> FALSE, found |-> TRUE]
  ELSE some(list, itemId, i + 1)

Range(list) == {list[i] : i \in DOMAIN list}

\* saved.filter(callback), kept being the elements the callback is true of:
\* the kept elements in order; reading a field of null throws.
RECURSIVE filter(_, _, _)
filter(list, kept, i) ==
  IF i > Len(list) THEN [threw |-> FALSE, list |-> <<>>]
  ELSE IF list[i] = Null THEN [threw |-> TRUE, list |-> <<>>]
  ELSE LET rest == filter(list, kept, i + 1)
       IN IF rest.threw THEN rest
          ELSE [threw |-> FALSE,
                list |-> IF list[i] \in kept THEN <<list[i]>> \o rest.list
                         ELSE rest.list]

\* Mutant: the test for a stored entry with the same id always fails.
saveItemFoundNever(saved, item) == [threw |-> FALSE, found |-> FALSE]

\* What a savedItemsManager write returns: ok is the boolean result, text the
\* stored text afterwards, wrote what became of localStorage.setItem.
saveItemFound(saved, item) ==
  IF saved.isArray THEN find(saved.entries, item, 1)
  ELSE [threw |-> TRUE, found |-> FALSE]

\* Mutant: the new card is put in front of the stored ones.
saveItemPrepend(text, mode, item) ==
  LET saved == getSavedItems(text, mode)
      f == IF saved.isArray THEN find(saved.entries, item, 1)
           ELSE [threw |-> TRUE, found |-> FALSE]
  IN IF f.threw \/ f.found \/ setItemThrows(mode)
       THEN [ok |-> FALSE, threw |-> FALSE, text |-> text,
             wrote |-> IF ~f.threw /\ ~f.found THEN "failed" ELSE "none"]
       ELSE [ok |-> TRUE, threw |-> FALSE,
             text |-> JSON_stringify(<<item>> \o saved.entries),
             wrote |-> "ok"]

saveItem(text, mode, item) ==
  LET saved == getSavedItems(text, mode)
      f == saveItemFound(saved, item)
  IN IF f.threw
       THEN [ok |-> FALSE, threw |-> FALSE, text |-> text, wrote |-> "none"]
     ELSE IF ~f.found
       THEN IF setItemThrows(mode)
              THEN [ok |-> FALSE, threw |-> FALSE, text |-> text,
                    wrote |-> "failed"]
              ELSE [ok |-> TRUE, threw |-> FALSE,
                    text |-> JSON_stringify(Append(saved.entries, item)),
                    wrote |-> "ok"]
     ELSE [ok |-> FALSE, threw |-> FALSE, text |-> text, wrote |-> "none"]

\* Mutant: removeItem without its try/catch, the failed write reaching the
\* caller.
removeItemUncaught(text, mode, itemId) ==
  LET saved == getSavedItems(text, mode)
      kept == {s \in Range(saved.entries) : s.id # itemId}
      updated == IF saved.isArray THEN filter(saved.entries, kept, 1)
                 ELSE [threw |-> TRUE, list |-> <<>>]
  IN IF updated.threw
       THEN [ok |-> FALSE, threw |-> TRUE, text |-> text, wrote |-> "none"]
     ELSE IF setItemThrows(mode)
       THEN [ok |-> FALSE, threw |-> TRUE, text |-> text, wrote |-> "failed"]
     ELSE [ok |-> TRUE, threw |-> FALSE,
           text |-> JSON_stringify(updated.list), wrote |-> "ok"]

removeItem(text, mode, itemId) ==
  LET saved == getSavedItems(text, mode)
      kept == {s \in Range(saved.entries) : s.id # itemId}
      updated == IF saved.isArray THEN filter(saved.entries, kept, 1)
                 ELSE [threw |-> TRUE, list |-> <<>>]
  IN IF updated.threw
       THEN [ok |-> FALSE, threw |-> FALSE, text |-> text, wrote |-> "none"]
     ELSE IF setItemThrows(mode)
       THEN [ok |-> FALSE, threw |-> FALSE, text |-> text, wrote |-> "failed"]
     ELSE [ok |-> TRUE, threw |-> FALSE,
           text |-> JSON_stringify(updated.list), wrote |-> "ok"]

\* isSaved has no try/catch of its own: a TypeError reaches the caller.
isSaved(text, mode, itemId) ==
  LET saved == getSavedItems(text, mode)
      r == IF saved.isArray THEN some(saved.entries, itemId, 1)
           ELSE [threw |-> TRUE, found |-> FALSE]
  IN [ok |-> r.found, threw |-> r.threw]

\* Mutant: the entries of the category come last stored first.
getSavedByTypeReversed(text, mode, type) ==
  LET saved == getSavedItems(text, mode)
      kept == {s \in Range(saved.entries) : s.type = type}
      r == IF saved.isArray THEN filter(saved.entries, kept, 1)
           ELSE [threw |-> TRUE, list |-> <<>>]
  IN [threw |-> r.threw,
      list |-> [i \in 1..Len(r.list) |-> r.list[Len(r.list) + 1 - i]]]

\* getSavedByType has no try/catch of its own either.
getSavedByType(text, mode, type) ==
  LET saved == getSavedItems(text, mode)
      kept == {s \in Range(saved.entries) : s.type = type}
  IN IF saved.isArray THEN filter(saved.entries, kept, 1)
     ELSE [threw |-> TRUE, list |-> <<>>]

(***************************************************************************)
(* Calls of the exported savedItemsManager, from anywhere on the page.     *)
(***************************************************************************)
NoCall ==
  [op |-> "none", arg |-> "", item |-> Undefined, mode |-> "ok", before |-> NoKey, threw |-> FALSE,
   ok |-> FALSE, isArray |-> TRUE, list |-> <<>>, wrote |-> "none"]

CallSaveItem(item, mode) ==
  LET r == saveItem(lotus_saved_items, mode, item)
  IN /\ lotus_saved_items' = r.text
     /\ call' = [op |-> "saveItem", arg |-> item.id, item |-> item, mode |-> mode,
                 before |-> lotus_saved_items, threw |-> r.threw, ok |-> r.ok,
                 isArray |-> TRUE, list |-> <<>>, wrote |-> r.wrote]
     /\ UNCHANGED <<galleryVars, cardVars, keyVars>>

CallRemoveItem(itemId, mode) ==
  LET r == removeItem(lotus_saved_items, mode, itemId)
  IN /\ lotus_saved_items' = r.text
     /\ call' = [op |-> "removeItem", arg |-> itemId,
                 item |-> Undefined, mode |-> mode,
                 before |-> lotus_saved_items, threw |-> r.threw, ok |-> r.ok,
                 isArray |-> TRUE, list |-> <<>>, wrote |-> r.wrote]
     /\ UNCHANGED <<galleryVars, cardVars, keyVars>>

CallGetSavedItems(mode) ==
  LET r == getSavedItems(lotus_saved_items, mode)
  IN /\ call' = [op |-> "getSavedItems", arg |-> "",
                 item |-> Undefined, mode |-> mode,
                 before |-> lotus_saved_items, threw |-> FALSE, ok |-> FALSE,
                 isArray |-> r.isArray, list |-> r.entries, wrote |-> "none"]
     /\ UNCHANGED <<lotus_saved_items, galleryVars, cardVars, keyVars>>

CallIsSaved(itemId, mode) ==
  LET r == isSaved(lotus_saved_items, mode, itemId)
  IN /\ call' = [op |-> "isSaved", arg |-> itemId,
                 item |-> Undefined, mode |-> mode,
                 before |-> lotus_saved_items, threw |-> r.threw, ok |-> r.ok,
                 isArray |-> TRUE, list |-> <<>>, wrote |-> "none"]
     /\ UNCHANGED <<lotus_saved_items, galleryVars, cardVars, keyVars>>

CallGetSavedByType(type, mode) ==
  LET r == getSavedByType(lotus_saved_items, mode, type)
  IN /\ call' = [op |-> "getSavedByType", arg |-> type,
                 item |-> Undefined, mode |-> mode,
                 before |-> lotus_saved_items, threw |-> r.threw, ok |-> FALSE,
                 isArray |-> TRUE, list |-> r.list, wrote |-> "none"]
     /\ UNCHANGED <<lotus_saved_items, galleryVars, cardVars, keyVars>>

(***************************************************************************)
(* The saved-items manager on its own.                                     *)
(***************************************************************************)
NoDecision ==
  [dir |-> "none", id |-> "", index |-> 0, tracked |-> FALSE,
   wasAdded |-> FALSE]

NoInfo == [offset |-> 0, velocity |-> 0, decision |-> "none"]

NoKeydown == [count |-> 0, key |-> "none", viewMode |-> "none"]

InitStore ==
  /\ lotus_saved_items \in {NoKey, Unparseable, NonArray, JSON_stringify(<<>>)}
  /\ call = NoCall
  /\ items = <<>>
  /\ currentIndex = 0
  /\ viewMode = "swipe"
  /\ mounted = FALSE
  /\ timers = <<>>
  /\ decisions = 0
  /\ advances = 0
  /\ seenAll = 0
  /\ lateCallbacks = 0
  /\ lastDecision = NoDecision
  /\ toast = "none"
  /\ x = <<>>
  /\ y = <<>>
  /\ info = NoInfo
  /\ keydown = NoKeydown
  /\ booked = <<>>

NextStore ==
  \/ \E item \in Cards, mode \in StorageModes : CallSaveItem(item, mode)
  \/ \E itemId \in CardIds, mode \in StorageModes : CallRemoveItem(itemId, mode)
  \/ \E mode \in StorageModes : CallGetSavedItems(mode)
  \/ \E itemId \in CardIds, mode \in StorageModes : CallIsSaved(itemId, mode)
  \/ \E type \in CardTypes, mode \in StorageModes : CallGetSavedByType(type, mode)

SpecStore == InitStore /\ [][NextStore]_vars

(***************************************************************************)
(* The gallery (SwipeGallery) and its cards (SwipeCard).                   *)
(***************************************************************************)
total == Len(items)

\* items[i] with i counted from 0, undefined past the end.
itemAt(i) == IF i + 1 \in DOMAIN items THEN items[i + 1] ELSE Undefined

\* Mutant: the slice takes four items.
windowOfFour(index) ==
  {i \in 0..(total - 1) : index <= i /\ i < index + 4}

\* items.slice(currentIndex, currentIndex + 3) as positions counted from 0:
\* the cards that have a SwipeCard instance in swipe mode.
window(index) ==
  {i \in 0..(total - 1) : index <= i /\ i < index + 3}

min(a, b) == IF a < b THEN a ELSE b

\* The SwipeCard elements of the card stack with the props they are given,
\* by the position of their item.  None is rendered in grid mode.
cardStack ==
  IF mounted /\ viewMode = "swipe"
    THEN [i \in window(currentIndex) |->
            [data |-> itemAt(i),
             index |-> i - currentIndex,
             totalCards |-> min(3, total - currentIndex),
             isActive |-> (i - currentIndex) = 0]]
    ELSE [i \in {} |-> Undefined]

\* Mutant: the wrap test is one too far.
advanceOffByOne(prev, length) ==
  IF prev >= length THEN [index |-> 0, exhausted |-> TRUE]
  ELSE [index |-> prev + 1, exhausted |-> FALSE]

\* Mutant: the signal is given but the index is not wrapped.
advanceNoWrap(prev, length) ==
  [index |-> prev + 1, exhausted |-> prev >= length - 1]

\* The updater given to setCurrentIndex by the deferred callback.
advance(prev, length) ==
  IF prev >= length - 1 THEN [index |-> 0, exhausted |-> TRUE]
  ELSE [index |-> prev + 1, exhausted |-> FALSE]

\* progress = ((currentIndex + 1) / items.length) * 100, kept as the
\* numerator and the denominator of the fraction of 100.
progress == [num |-> (currentIndex + 1) * 100, den |-> total]

\* The empty state is rendered, with its Start Over button.
emptyState == viewMode = "swipe" /\ currentIndex >= total

\* Mutant: the callback is scheduled with no delay.
setTimeoutNow(delay) == Append(timers, [delay |-> 0, elapsed |-> 0])

\* setTimeout(callback, delay): a callback waiting, with the time it has waited.
setTimeout(delay) == Append(timers, [delay |-> delay, elapsed |-> 0])

\* The state a SwipeCard instance is created with.
freshCards(value) == [i \in 1..total |-> value]

\* Instances of cards that are not rendered are destroyed: their state is
\* the initial one when they are rendered again.
keepRendered(f, rendered, value) ==
  [i \in 1..total |-> IF (i - 1) \in rendered THEN f[i] ELSE value]

handleSwipeLeft(item) ==
  /\ decisions < MaxDecisions
  /\ decisions' = decisions + 1
  /\ IF item = Undefined
       THEN \* item.id throws before anything is recorded or scheduled
            UNCHANGED <<lastDecision, timers>>
       ELSE /\ lastDecision' = [dir |-> "left", id |-> item.id,
                                index |-> currentIndex, tracked |-> TRUE,
                                wasAdded |-> FALSE]
            /\ timers' = setTimeout(SETTLE_DELAY)
  /\ UNCHANGED <<items, currentIndex, viewMode, mounted, advances, seenAll,
                 lateCallbacks, toast, storeVars>>

handleSwipeRight(item, mode) ==
  LET r == saveItem(lotus_saved_items, mode, item)
  IN /\ decisions < MaxDecisions
     /\ decisions' = decisions + 1
     /\ lotus_saved_items' = r.text
     /\ IF item = Undefined
          THEN \* item.id or item.title throws after saveItem returned
               UNCHANGED <<lastDecision, timers, toast>>
          ELSE /\ lastDecision' = [dir |-> "right", id |-> item.id,
                                   index |-> currentIndex, tracked |-> r.ok,
                                   wasAdded |-> r.ok]
               /\ toast' = IF r.ok THEN "saved" ELSE "already"
               /\ timers' = setTimeout(SETTLE_DELAY)
     /\ UNCHANGED <<items, currentIndex, viewMode, mounted, advances, seenAll,
                    lateCallbacks, call>>

\* Mutant: the listener does not look at the view mode.
keyboardActiveAlways == TRUE

\* if (viewMode !== 'swipe') return;
keyboardActive == viewMode = "swipe"

\* onBook(item): the prop is called with the card (undefined past the end).
onBook(item) == Append(booked, item.id)

\* The keydown listener of the window, attached while the gallery is mounted.
handleKeyDown(key, mode) ==
  /\ mounted
  /\ IF ~keyboardActive
       THEN UNCHANGED <<galleryVars, storeVars, cardVars, booked>>
     ELSE CASE key = "ArrowLeft" ->
                 /\ handleSwipeLeft(itemAt(currentIndex))
                 /\ UNCHANGED <<cardVars, booked>>
            [] key = "ArrowRight" ->
                 /\ handleSwipeRight(itemAt(currentIndex), mode)
                 /\ UNCHANGED <<cardVars, booked>>
            [] key = "Enter" ->
                 /\ Len(booked) < MaxBookings
                 /\ booked' = onBook(itemAt(currentIndex))
                 /\ UNCHANGED <<galleryVars, storeVars, cardVars>>

\* A key press, kept in keydown with the view the gallery was showing.
KeyDown(key, mode) ==
  /\ keydown.count < MaxKeys
  /\ handleKeyDown(key, mode)
  /\ keydown' = [count |-> keydown.count + 1, key |-> key,
                 viewMode |-> viewMode]

\* A press of an arrow key, not kept.
ArrowKey(key, mode) ==
  /\ handleKeyDown(key, mode)
  /\ UNCHANGED keydown

\* A click on a card of the grid view: handleBook calls onBook with it.
handleBook(item) ==
  /\ mounted
  /\ viewMode = "grid"
  /\ Len(booked) < MaxBookings
  /\ booked' = onBook(item)
  /\ UNCHANGED <<galleryVars, storeVars, cardVars, keydown>>

\* The active card is the first of the window; it alone can be dragged and
\* shows the Skip and Save buttons.
activeCard == mounted /\ viewMode = "swipe" /\ currentIndex < total

abs(v) == IF v < 0 THEN -v ELSE v

\* Mutant: right only when offset and velocity both point right.
classifyBothSigns(offset, velocity) ==
  IF abs(velocity) > SWIPE_VELOCITY \/ abs(offset) > SWIPE_THRESHOLD
    THEN IF offset > 0 /\ velocity > 0 THEN "right" ELSE "left"
    ELSE "cancel"

\* The classification made by handleDragEnd.
classify(offset, velocity) ==
  IF abs(velocity) > SWIPE_VELOCITY \/ abs(offset) > SWIPE_THRESHOLD
    THEN IF offset > 0 \/ velocity > 0 THEN "right" ELSE "left"
    ELSE "cancel"

\* Mutant: a release that is not strong enough skips the card.
handleDragEndCancelSkips(offset, velocity, mode) ==
  LET card == currentIndex + 1
      direction == classify(offset, velocity)
  IN /\ activeCard
     /\ info' = [offset |-> offset, velocity |-> velocity,
                 decision |-> direction]
     /\ CASE direction = "right" ->
               /\ x' = [x EXCEPT ![card] = 500]
               /\ y' = y
               /\ handleSwipeRight(itemAt(currentIndex), mode)
          [] OTHER ->
               /\ x' = [x EXCEPT ![card] = -500]
               /\ y' = y
               /\ handleSwipeLeft(itemAt(currentIndex))
     /\ UNCHANGED keyVars

handleDragEnd(offset, velocity, mode) ==
  LET card == currentIndex + 1
      direction == classify(offset, velocity)
  IN /\ activeCard
     /\ info' = [offset |-> offset, velocity |-> velocity,
                 decision |-> direction]
     /\ CASE direction = "right" ->
               /\ x' = [x EXCEPT ![card] = 500]
               /\ y' = y
               /\ handleSwipeRight(itemAt(currentIndex), mode)
          [] direction = "left" ->
               /\ x' = [x EXCEPT ![card] = -500]
               /\ y' = y
               /\ handleSwipeLeft(itemAt(currentIndex))
          [] OTHER ->
               /\ x' = [x EXCEPT ![card] = 0]
               /\ y' = [y EXCEPT ![card] = 0]
               /\ UNCHANGED <<galleryVars, storeVars>>
     /\ UNCHANGED keyVars

handleSkip ==
  /\ activeCard
  /\ x' = [x EXCEPT ![currentIndex + 1] = -500]
  /\ handleSwipeLeft(itemAt(currentIndex))
  /\ UNCHANGED <<y, info, keyVars>>

handleSave(mode) ==
  /\ activeCard
  /\ x' = [x EXCEPT ![currentIndex + 1] = 500]
  /\ handleSwipeRight(itemAt(currentIndex), mode)
  /\ UNCHANGED <<y, info, keyVars>>

\* The Swipe / Grid toggle.  In grid mode no SwipeCard is rendered.
setViewMode(mode) ==
  /\ mounted
  /\ mode # viewMode
  /\ viewMode' = mode
  /\ x' = freshCards(0)
  /\ y' = freshCards(0)
  /\ UNCHANGED <<info, items, currentIndex, mounted, timers, decisions,
                 advances, seenAll, lateCallbacks, lastDecision, toast,
                 storeVars, keyVars>>

handleReset ==
  /\ mounted
  /\ emptyState
  /\ currentIndex' = 0
  /\ toast' = "reset"
  /\ UNCHANGED <<items, viewMode, mounted, timers, decisions, advances,
                 seenAll, lateCallbacks, lastDecision, storeVars, cardVars,
                 keyVars>>

\* Time passes: every waiting callback has waited TickStep longer.
Tick ==
  /\ \E i \in DOMAIN timers : timers[i].elapsed < timers[i].delay
  /\ timers' = [i \in DOMAIN timers |->
                  [timers[i] EXCEPT !.elapsed =
                     IF @ + TickStep >= timers[i].delay THEN timers[i].delay
                     ELSE @ + TickStep]]
  /\ UNCHANGED <<items, currentIndex, viewMode, mounted, decisions, advances,
                 seenAll, lateCallbacks, lastDecision, toast, storeVars,
                 cardVars, keyVars>>

\* The oldest deferred callback runs once its delay has passed.  No handler
\* clears it: it runs whether or not the gallery is still mounted.  On an
\* unmounted component the state update is dropped, and React may or may not
\* have called the updater (and with it the toast) before dropping it.
TimerFire ==
  /\ timers # <<>>
  /\ Head(timers).elapsed >= Head(timers).delay
  /\ timers' = Tail(timers)
  /\ IF mounted
       THEN LET next == advance(currentIndex, total)
                rendered == IF viewMode = "swipe" THEN window(next.index)
                            ELSE {}
            IN /\ currentIndex' = next.index
               /\ advances' = advances + 1
               /\ seenAll' = IF next.exhausted THEN seenAll + 1 ELSE seenAll
               /\ toast' = IF next.exhausted THEN "seenAll" ELSE toast
               /\ x' = keepRendered(x, rendered, 0)
               /\ y' = keepRendered(y, rendered, 0)
               /\ UNCHANGED lateCallbacks
       ELSE /\ lateCallbacks' = lateCallbacks + 1
            /\ \E updaterRan \in BOOLEAN :
                 LET next == advance(currentIndex, total)
                 IN IF updaterRan /\ next.exhausted
                      THEN seenAll' = seenAll + 1 /\ toast' = "seenAll"
                      ELSE UNCHANGED <<seenAll, toast>>
            /\ UNCHANGED <<currentIndex, advances, x, y>>
  /\ UNCHANGED <<items, viewMode, mounted, decisions, lastDecision, info,
                 storeVars, keyVars>>

\* The gallery is unmounted: its listener and its cards are gone, its
\* timers are not.
Unmount ==
  /\ mounted
  /\ mounted' = FALSE
  /\ x' = freshCards(0)
  /\ y' = freshCards(0)
  /\ UNCHANGED <<info, items, currentIndex, viewMode, timers, decisions,
                 advances, seenAll, lateCallbacks, lastDecision, toast,
                 storeVars, keyVars>>

\* Other code of the page uses the exported savedItemsManager while the
\* gallery is shown, on the cards the gallery was given.
PageSaveItem(item, mode) ==
  /\ lotus_saved_items' = saveItem(lotus_saved_items, mode, item).text
  /\ UNCHANGED <<call, galleryVars, cardVars, keyVars>>

PageRemoveItem(itemId, mode) ==
  /\ lotus_saved_items' = removeItem(lotus_saved_items, mode, itemId).text
  /\ UNCHANGED <<call, galleryVars, cardVars, keyVars>>

(***************************************************************************)
(* The gallery with the page around it.                                    *)
(***************************************************************************)
\* Drag releases tried on a gallery: a commit to each side and a cancel.
GallerySamples == {<<150, 0>>, <<-10, -600>>, <<10, 0>>}

Init ==
  /\ lotus_saved_items \in {NoKey, Unparseable, NonArray, JSON_stringify(<<>>)}
  /\ call = NoCall
  /\ items \in {SubSeq(AllItems, 1, n) : n \in 0..MaxTotal}
  /\ currentIndex = 0
  /\ viewMode = "swipe"
  /\ mounted = TRUE
  /\ timers = <<>>
  /\ decisions = 0
  /\ advances = 0
  /\ seenAll = 0
  /\ lateCallbacks = 0
  /\ lastDecision = NoDecision
  /\ toast = "none"
  /\ x = freshCards(0)
  /\ y = freshCards(0)
  /\ info = NoInfo
  /\ keydown = NoKeydown
  /\ booked = <<>>

Next ==
  \/ \E key \in {"ArrowLeft", "ArrowRight"}, mode \in StorageModes :
       ArrowKey(key, mode)
  \/ \E s \in GallerySamples, mode \in StorageModes :
       handleDragEnd(s[1], s[2], mode)
  \/ handleSkip
  \/ \E mode \in StorageModes : handleSave(mode)
  \/ \E mode \in {"swipe", "grid"} : setViewMode(mode)
  \/ handleReset
  \/ Tick
  \/ TimerFire
  \/ Unmount
  \/ \E item \in Range(items), mode \in StorageModes :
       PageSaveItem(item, mode)
  \/ \E itemId \in {c.id : c \in Range(items)}, mode \in StorageModes :
       PageRemoveItem(itemId, mode)

Spec == Init /\ [][Next]_vars

(***************************************************************************)
(* One card released at every sample of a grid around the two thresholds.  *)
(***************************************************************************)
Offsets == {-150, -101, -100, -10, 0, 10, 100, 101, 150}
Velocities == {-600, -501, -500, 0, 500, 501, 600}

InitCard ==
  /\ Init
  /\ lotus_saved_items = NoKey
  /\ total = 2

NextCard ==
  \/ \E offset \in Offsets, velocity \in Velocities :
       handleDragEnd(offset, velocity, "ok")
  \/ Tick
  \/ TimerFire

SpecCard == InitCard /\ [][NextCard]_vars

(***************************************************************************)
(* The gallery under an event loop that lets time pass and runs every      *)
(* callback that is due.                                                   *)
(***************************************************************************)
InitLive ==
  /\ Init
  /\ lotus_saved_items = NoKey
  /\ total <= 2

SpecLive == InitLive /\ [][Next]_vars /\ WF_vars(Tick) /\ WF_vars(TimerFire)

(***************************************************************************)
(* The gallery driven from the keyboard, with the Swipe / Grid toggle and   *)
(* clicks on the grid.                                                     *)
(***************************************************************************)
InitKeys ==
  /\ Init
  /\ lotus_saved_items = NoKey
  /\ total \in 1..2

NextKeys ==
  \/ \E key \in {"ArrowLeft", "ArrowRight", "Enter"}, mode \in StorageModes :
       KeyDown(key, mode)
  \/ \E mode \in {"swipe", "grid"} : setViewMode(mode)
  \/ \E item \in Range(items) : handleBook(item)
  \/ Tick
  \/ TimerFire

SpecKeys == InitKeys /\ [][NextKeys]_vars

(***************************************************************************)
(* A gallery of more items than the card stack shows.                      *)
(***************************************************************************)
InitStack ==
  /\ lotus_saved_items = NoKey
  /\ call = NoCall
  /\ items \in {SubSeq(AllItems, 1, n) : n \in (StackTotal - 1)..StackTotal}
  /\ currentIndex = 0
  /\ viewMode = "swipe"
  /\ mounted = TRUE
  /\ timers = <<>>
  /\ decisions = 0
  /\ advances = 0
  /\ seenAll = 0
  /\ lateCallbacks = 0
  /\ lastDecision = NoDecision
  /\ toast = "none"
  /\ x = freshCards(0)
  /\ y = freshCards(0)
  /\ info = NoInfo
  /\ keydown = NoKeydown
  /\ booked = <<>>

NextStack ==
  \/ \E key \in {"ArrowLeft", "ArrowRight"} : ArrowKey(key, "ok")
  \/ \E s \in GallerySamples : handleDragEnd(s[1], s[2], "ok")
  \/ handleSkip
  \/ handleSave("ok")
  \/ \E mode \in {"swipe", "grid"} : setViewMode(mode)
  \/ Tick
  \/ TimerFire

SpecStack == InitStack /\ [][NextStack]_vars

(***************************************************************************)
(* Properties.                                                             *)
(***************************************************************************)
\* The stored text is a sequence of cards (no key counts as the empty one).
IsCardList(text) ==
  /\ text.kind \in {"missing", "array"}
  /\ \A i \in DOMAIN text.entries : text.entries[i] \in Cards

HasId(list, itemId) == \E i \in DOMAIN list : list[i].id = itemId

Without(list, itemId) == SelectSeq(list, LAMBDA s : s.id # itemId)

\* C1: a released drag is a commit iff |velocity| > 500 or |offset| > 100;
\* a commit goes right (onSwipeRight) iff offset > 0 or velocity > 0 and
\* left (onSwipeLeft) otherwise; every other release is a cancel.
C1_ClassificationRule ==
  info.decision # "none" =>
    LET o == info.offset
        v == info.velocity
        commit == v > 500 \/ v < -500 \/ o > 100 \/ o < -100
        right == o > 0 \/ v > 0
    IN /\ info.decision = "cancel" <=> ~commit
       /\ info.decision = "right" <=> (commit /\ right)
       /\ info.decision = "left" <=> (commit /\ ~right)
       /\ (o = 150 /\ v = 0) => info.decision = "right"
       /\ (o = 10 /\ v = 600) => info.decision = "right"
       /\ (o = -150 /\ v = 0) => info.decision = "left"
       /\ (o = -10 /\ v = -600) => info.decision = "left"

\* C1 witness: the release (10, 600) was classified, velocity deciding.
C1_Witness ==
  /\ info = [offset |-> 10, velocity |-> 600, decision |-> "right"]
  /\ lastDecision.dir = "right"

\* C2: on working storage saveItem returns true and appends the card at the
\* end when its id is not stored, and returns false leaving the stored
\* sequence as it was when it is.
C2_SaveItemAppendsOnce ==
  (call.op = "saveItem" /\ call.mode = "ok" /\ IsCardList(call.before)) =>
    /\ ~call.threw
    /\ IF HasId(call.before.entries, call.arg)
         THEN ~call.ok /\ lotus_saved_items = call.before
         ELSE /\ call.ok
              /\ lotus_saved_items.kind = "array"
              /\ lotus_saved_items.entries
                   = Append(call.before.entries, call.item)

\* C2 witness: the second of two saveItem calls with the same card on an
\* empty store returned false and left the one entry.
C2_Witness ==
  /\ call.op = "saveItem"
  /\ call.mode = "ok"
  /\ ~call.ok
  /\ call.before = JSON_stringify(<<call.item>>)
  /\ lotus_saved_items = call.before

\* C3: removeItem returns true iff an entry with the id was stored (that
\* entry is removed, the others kept in order), and returns false leaving
\* the stored sequence as it was when none is.
C3_RemoveItemTellsWhetherRemoved ==
  (call.op = "removeItem" /\ call.mode = "ok" /\ IsCardList(call.before)) =>
    /\ call.ok <=> HasId(call.before.entries, call.arg)
    /\ lotus_saved_items.entries = Without(call.before.entries, call.arg)
    /\ ~HasId(call.before.entries, call.arg)
         => lotus_saved_items.entries = call.before.entries

\* C5: whatever the stored text and however storage answers, the three
\* reads return the result for an empty set and raise nothing.
C5_ReadsDegradeToEmpty ==
  ( /\ call.op \in {"getSavedItems", "isSaved", "getSavedByType"}
    /\ \/ call.mode = "denied"
       \/ call.before.kind \in {"missing", "unparseable", "nonarray"} ) =>
    /\ ~call.threw
    /\ call.op = "getSavedItems" => (call.isArray /\ call.list = <<>>)
    /\ call.op = "isSaved" => ~call.ok
    /\ call.op = "getSavedByType" => call.list = <<>>

\* C6: when localStorage.setItem fails inside saveItem or removeItem, the
\* call raises nothing, returns false and leaves the stored text as it was.
C6_FailedWriteIsDropped ==
  (call.op \in {"saveItem", "removeItem"} /\ call.wrote = "failed") =>
    /\ ~call.threw
    /\ ~call.ok
    /\ lotus_saved_items = call.before

\* C6 witness: removeItem of a stored card while the quota is spent.
C6_Witness ==
  /\ call.op = "removeItem"
  /\ call.wrote = "failed"
  /\ call.mode = "quota"
  /\ HasId(call.before.entries, call.arg)
  /\ lotus_saved_items = call.before

\* C4: the identifiers of the entries of the stored sequence are pairwise
\* distinct after any sequence of saves, removals, swipes and key presses.
C4_DistinctIdentifiers ==
  lotus_saved_items.kind = "array" =>
    \A i, j \in DOMAIN lotus_saved_items.entries :
      i # j => lotus_saved_items.entries[i].id # lotus_saved_items.entries[j].id

\* C4 witness: a commit-right added a third entry to the stored sequence.
C4_Witness ==
  /\ lastDecision.dir = "right"
  /\ lastDecision.wasAdded
  /\ Len(lotus_saved_items.entries) = 3
  /\ HasId(lotus_saved_items.entries, lastDecision.id)

\* C7: in a mounted gallery of total >= 1 items each advance that fires
\* moves currentIndex to (currentIndex + 1) mod total, and the exhaustion
\* signal is emitted by exactly the advances that go from total - 1 to 0;
\* so after n advances currentIndex = n mod total and n div total signals
\* were emitted.
C7_AdvanceWrapsAndSignalsOnce ==
  /\ [](total >= 1 /\ mounted =>
          /\ currentIndex = advances % total
          /\ seenAll = advances \div total)
  /\ [][(total >= 1 /\ advances' = advances + 1) =>
          /\ currentIndex' = (currentIndex + 1) % total
          /\ seenAll' \in {seenAll, seenAll + 1}
          /\ seenAll' = seenAll + 1
               <=> (currentIndex = total - 1 /\ currentIndex' = 0)]_vars

\* C7 witness: three advances of a gallery of three items, back at 0 with
\* one exhaustion signal.
C7_Witness ==
  /\ total = 3
  /\ mounted
  /\ advances = 3
  /\ currentIndex = 0
  /\ seenAll = 1
  /\ toast = "seenAll"

\* C8: in a gallery of total >= 1 items 0 <= currentIndex < total in every
\* state, so progress is in (0, 1] and the empty state with its reset is
\* never shown.
C8_IndexInRange ==
  total >= 1 =>
    /\ 0 <= currentIndex
    /\ currentIndex < total
    /\ 0 < progress.num
    /\ progress.num <= 100 * progress.den
    /\ ~emptyState
    /\ ~ENABLED handleReset

\* C8 witness: the cursor on the last of three items, progress 3/3.
C8_Witness ==
  /\ total = 3
  /\ currentIndex = total - 1
  /\ advances = 2
  /\ progress.num = 100 * progress.den

\* C10: once the gallery is unmounted no deferred advance callback runs.
C10_NoCallbackAfterUnmount == ~mounted => lateCallbacks = 0

\* C9 as stated: every commit decision tracks its analytics event (and a
\* commit-right calls saveItem) at decision time, with currentIndex as it
\* was, and schedules one advance, which fires only after the settle delay;
\* advances never exceed decisions and, while mounted, come to equal them.
C9_DecisionAt(always) ==
  (total >= 1 /\ decisions' = decisions + 1) =>
    /\ currentIndex' = currentIndex
    /\ advances' = advances
    /\ seenAll' = seenAll
    /\ lastDecision'.index = currentIndex
    /\ lastDecision'.id = itemAt(currentIndex).id
    /\ lastDecision'.tracked
         <=> (always \/ lastDecision'.dir = "left" \/ lastDecision'.wasAdded)
    /\ lastDecision'.wasAdded =>
         /\ lastDecision'.dir = "right"
         /\ ~HasId(getSavedItems(lotus_saved_items, "ok").entries,
                   lastDecision'.id)
         /\ HasId(lotus_saved_items'.entries, lastDecision'.id)
    /\ lastDecision'.dir = "left" => lotus_saved_items' = lotus_saved_items
    /\ timers' = Append(timers, [delay |-> SETTLE_DELAY, elapsed |-> 0])

C9_AdvanceAt ==
  advances' # advances =>
    /\ advances' = advances + 1
    /\ decisions' = decisions
    /\ Head(timers).elapsed >= SETTLE_DELAY
    /\ timers' = Tail(timers)

C9_Counts ==
  total >= 1 =>
    /\ advances <= decisions
    /\ mounted => advances + Len(timers) = decisions

C9_EveryAdvanceComes ==
  \A n \in 1..MaxDecisions :
    (total >= 1 /\ decisions >= n) ~> (advances >= n \/ ~mounted)

C9_EveryDecisionTracked ==
  /\ [][C9_DecisionAt(TRUE)]_vars
  /\ [][C9_AdvanceAt]_vars
  /\ []C9_Counts
  /\ C9_EveryAdvanceComes

\* C9 as amended: the analytics event is tracked by every commit-left and by
\* the commit-rights whose saveItem returned true, and by no other.
C9_DecisionThenOneAdvance ==
  /\ [][C9_DecisionAt(FALSE)]_vars
  /\ [][C9_AdvanceAt]_vars
  /\ []C9_Counts
  /\ C9_EveryAdvanceComes

\* C9 witness: two decisions, the last a commit-right on a card already
\* saved (no analytics event), and both advances have fired.
C9_Witness ==
  /\ mounted
  /\ total >= 1
  /\ decisions = 2
  /\ advances = 2
  /\ timers = <<>>
  /\ lastDecision.dir = "right"
  /\ ~lastDecision.tracked

\* C11: a key press handled while viewMode is 'grid' makes no decision,
\* schedules no advance, leaves the stored sequence alone and does not call
\* onBook; while viewMode is 'swipe' ArrowLeft is a commit-left and
\* ArrowRight a commit-right on items[currentIndex], and Enter calls
\* onBook(items[currentIndex]) leaving currentIndex and the stored sequence
\* as they were.
C11_KeyPressed == keydown'.count = keydown.count + 1

C11_Decided(dir) ==
  /\ decisions' = decisions + 1
  /\ lastDecision'.dir = dir
  /\ lastDecision'.id = itemAt(currentIndex).id
  /\ lastDecision'.index = currentIndex
  /\ timers' = Append(timers, [delay |-> SETTLE_DELAY, elapsed |-> 0])
  /\ currentIndex' = currentIndex
  /\ booked' = booked

C11_KeyboardOnlyInSwipeMode ==
  [][C11_KeyPressed =>
       IF viewMode = "grid"
         THEN /\ decisions' = decisions
              /\ lastDecision' = lastDecision
              /\ timers' = timers
              /\ lotus_saved_items' = lotus_saved_items
              /\ booked' = booked
              /\ currentIndex' = currentIndex
         ELSE /\ keydown'.key = "ArrowLeft" =>
                   /\ C11_Decided("left")
                   /\ lotus_saved_items' = lotus_saved_items
              /\ keydown'.key = "ArrowRight" =>
                   /\ C11_Decided("right")
                   /\ \/ lotus_saved_items' = lotus_saved_items
                      \/ /\ lastDecision'.wasAdded
                         /\ lotus_saved_items'.entries
                              = Append(lotus_saved_items.entries,
                                       itemAt(currentIndex))
              /\ keydown'.key = "Enter" =>
                   /\ booked' = Append(booked, itemAt(currentIndex).id)
                   /\ currentIndex' = currentIndex
                   /\ lotus_saved_items' = lotus_saved_items
                   /\ decisions' = decisions
                   /\ timers' = timers]_vars

\* C11 witness: ArrowLeft in swipe mode committed left on the first card and
\* Enter booked it; then ArrowRight in grid mode did nothing.
C11_Witness ==
  /\ keydown = [count |-> 3, key |-> "ArrowRight", viewMode |-> "grid"]
  /\ viewMode = "grid"
  /\ decisions = 1
  /\ lastDecision.dir = "left"
  /\ booked = <<"a">>
  /\ lotus_saved_items = NoKey

\* C12: while the gallery shows the swipe view, the cards rendered are
\* exactly the items at positions currentIndex .. min(currentIndex + 3,
\* total) - 1 (at most 3, none past the end), only the one at currentIndex
\* is active and can be moved, and an advance that does not wrap moves the
\* rendered positions on by one.
C12_Positions(index) ==
  {i \in 0..(total - 1) :
     /\ index <= i
     /\ i <= (IF index + 3 < total THEN index + 3 ELSE total) - 1}

C12_Stack ==
  (mounted /\ viewMode = "swipe") =>
    /\ DOMAIN cardStack = C12_Positions(currentIndex)
    /\ Cardinality(DOMAIN cardStack) <= 3
    /\ \A i \in DOMAIN cardStack :
         /\ cardStack[i].data = items[i + 1]
         /\ cardStack[i].isActive <=> i = currentIndex

C12_OnlyActiveMoves ==
  \A i \in 1..total :
    (x'[i] # x[i] /\ x'[i] # 0) =>
      /\ (i - 1) \in DOMAIN cardStack
      /\ cardStack[i - 1].isActive

C12_Slides ==
  ( /\ advances' = advances + 1
    /\ currentIndex' = currentIndex + 1
    /\ viewMode = "swipe" ) =>
    DOMAIN cardStack'
      = {i + 1 : i \in DOMAIN cardStack} \cap (0..(total - 1))

C12_LazyWindowOfThree ==
  /\ []C12_Stack
  /\ [][C12_OnlyActiveMoves]_vars
  /\ [][C12_Slides]_vars

\* C12 witness: a gallery of five, two advances made: the cards at 2, 3
\* and 4 are rendered, the one at 2 active and pushed off to the right.
C12_Witness ==
  /\ total = 5
  /\ advances = 2
  /\ currentIndex = 2
  /\ DOMAIN cardStack = {2, 3, 4}
  /\ cardStack[2].isActive
  /\ ~cardStack[3].isActive
  /\ x[3] = 500

\* C13: a drag release classified as a cancel calls neither onSwipeLeft nor
\* onSwipeRight, schedules no advance and leaves currentIndex, viewMode and
\* the stored sequence as they were; only the x and y of the released card
\* are set, to 0.
C13_CancelChangesOnlyPosition ==
  [][(info' # info /\ info'.decision = "cancel") =>
       /\ decisions' = decisions
       /\ lastDecision' = lastDecision
       /\ timers' = timers
       /\ advances' = advances
       /\ currentIndex' = currentIndex
       /\ viewMode' = viewMode
       /\ lotus_saved_items' = lotus_saved_items
       /\ toast' = toast
       /\ x' = [x EXCEPT ![currentIndex + 1] = 0]
       /\ y' = [y EXCEPT ![currentIndex + 1] = 0]]_vars

\* C13 witness: the first card was dragged off to the right and saved, then
\* dragged again and let go before its advance: it is back at 0 and the
\* decision, the waiting advance and the stored entry are as they were.
C13_Witness ==
  /\ info.decision = "cancel"
  /\ decisions = 1
  /\ lastDecision.dir = "right"
  /\ Len(timers) = 1
  /\ currentIndex = 0
  /\ x[1] = 0
  /\ lotus_saved_items = JSON_stringify(<<items[1]>>)

\* C14: for every category and every stored sequence of cards that can be
\* read, getSavedByType(category) returns the stored entries of that type,
\* in the order they are stored in, and leaves the stored text as it was.
C14_ByTypeKeepsOrder ==
  ( /\ call.op = "getSavedByType"
    /\ call.mode # "denied"
    /\ IsCardList(call.before) ) =>
    /\ ~call.threw
    /\ call.list = SelectSeq(call.before.entries,
                             LAMBDA s : s.type = call.arg)
    /\ lotus_saved_items = call.before

\* C14 witness: c (room), b (restaurant) and a (room) were saved in that
\* order, and getSavedByType('room') returned c, a.
C14_Witness ==
  /\ call.op = "getSavedByType"
  /\ call.arg = "room"
  /\ Len(call.before.entries) = 3
  /\ call.before.entries[1].id = "c"
  /\ call.before.entries[2].id = "b"
  /\ call.before.entries[3].id = "a"
  /\ Len(call.list) = 2
  /\ call.list[1].id = "c"
  /\ call.list[2].id = "a"

\* C15: every commit-right shows exactly one of the two notices, and the
\* notice matches the store: 'saved' only if no entry with the card's id
\* was stored before and one is stored afterwards, 'already in your saved
\* items' only if an entry with the card's id was stored before - also when
\* reading or writing the store fails.
C15_NoticeMatchesStore ==
  [][(decisions' = decisions + 1 /\ lastDecision'.dir = "right") =>
       /\ toast' \in {"saved", "already"}
       /\ toast' = "saved" =>
            /\ ~HasId(lotus_saved_items.entries, lastDecision'.id)
            /\ HasId(lotus_saved_items'.entries, lastDecision'.id)
       /\ toast' = "already" =>
            HasId(lotus_saved_items.entries, lastDecision'.id)]_vars

\* C16: each deferred advance moves the cursor off the card its decision
\* was made on.  In a mounted gallery of total >= 1 items: at most one
\* advance is waiting; while the advance of the last decision is waiting the
\* cursor is still on the card of that decision; and once no advance is
\* waiting the cursor is on the card after the one last decided, no card
\* having been stepped over.
C16_AdvanceLeavesItsCard ==
  (mounted /\ total >= 1 /\ lastDecision.dir # "none") =>
    /\ Len(timers) <= 1
    /\ timers # <<>> => currentIndex = lastDecision.index
    /\ timers = <<>> => currentIndex = (lastDecision.index + 1) % total

====
